---- MODULE Spec2Model ----
(***************************************************************************)
(* Model of pkg/ordermutex: a ticket lock with per-ticket wake-ups.        *)
(*                                                                         *)
(* Goroutines are the threads 1..NProc.  Every statement sequence that     *)
(* runs with mu held up to the next statement other goroutines can        *)
(* observe is one action; acquiring mu, the body, the call of             *)
(* advanceAndWakeNext and the deferred m.mu.Unlock() are separate actions, *)
(* so states in which mu is held in the middle of an operation exist.      *)
(*                                                                         *)
(* Spec     callers follow the usage contract of ReturnTicket's comment.   *)
(* FairSpec Spec with the fairness of the Go scheduler and of sync.Mutex.  *)
(* SpecAny  callers pass any issued ticket to any operation at any time.   *)
(***************************************************************************)
EXTENDS Integers, Sequences, FiniteSets, TLC

\* Number of goroutines.
NProc == 3
\* Number of tickets handed out before GetTicket is no longer called.
MaxTickets == NProc
\* Number of calls that break the usage contract (SpecAny only).
MaxMisuse == 1

Procs == 1..NProc
\* Ticket ids a call can carry (one more than GetTicket hands out).
Tickets == 0..MaxTickets
\* Channel identities; a channel nobody refers to any more gives its
\* identity back, so NProc + MaxTickets + 1 identities are always enough.
Chans == 1..(NProc + MaxTickets + 1)
NoChan == 0
NoProc == 0

VARIABLES
    next,       \* orderMutex.next (atomic.Uint64)
    mu,         \* orderMutex.mu: NoProc when free, else the goroutine holding it
    cur,        \* orderMutex.cur
    waiters,    \* orderMutex.waiters: a map, ticket id -> channel
    burned,     \* orderMutex.burned: a set of ticket ids
    closed,     \* the channels that have been closed
    pc,         \* per goroutine: the statement it is at
    arg,        \* per goroutine: id := t.ID() of the call in progress
    ch,         \* per goroutine: the local ch of Lock
    panicking,  \* goroutines unwinding a panic
    issued,     \* observer: the ids GetTicket returned, in order
    phase,      \* observer: per ticket, how far its owner is in the contract
    admitted,   \* observer: the ids for which Lock returned, in order
    unlocked,   \* observer: ids for which Unlock passed its check
    cancelled,  \* observer: ids ReturnTicket burned (id >= cur at the time)
    revoked,    \* observer: ids burned while no Lock(id) had returned or been woken
    misuses     \* observer: number of calls so far that broke the contract

goroutines == <<pc, arg, ch, panicking>>
obs == <<issued, phase, admitted, unlocked, cancelled, revoked, misuses>>
vars == <<next, mu, cur, waiters, burned, closed, pc, arg, ch, panicking,
          issued, phase, admitted, unlocked, cancelled, revoked, misuses>>

\* New(): empty maps, zero counters.
Init ==
    /\ next = 0
    /\ mu = NoProc
    /\ cur = 0
    /\ waiters = << >>
    /\ burned = {}
    /\ closed = {}
    /\ pc = [p \in Procs |-> "idle"]
    /\ arg = [p \in Procs |-> 0]
    /\ ch = [p \in Procs |-> NoChan]
    /\ panicking = {}
    /\ issued = << >>
    /\ phase = [t \in Tickets |-> "none"]
    /\ admitted = << >>
    /\ unlocked = {}
    /\ cancelled = {}
    /\ revoked = {}
    /\ misuses = 0

----------------------------------------------------------------------------
\* Helpers

Range(f) == {f[x] : x \in DOMAIN f}

\* delete(m, k) on a Go map.
\* Bug: the delete is missing.
MapDeleteNothing(m, k) == m

\* delete(m, k) on a Go map.
MapDelete(m, k) == [x \in (DOMAIN m) \ {k} |-> m[x]]

\* Bug: the assignment is missing.
MapPutNothing(m, k, v) == m

\* m[k] = v on a Go map.
MapPut(m, k, v) == [x \in (DOMAIN m) \cup {k} |-> IF x = k THEN v ELSE m[x]]

\* Channels some map entry or some parked goroutine still refers to.
LiveChans(w, c) == (Range(w) \cup {c[p] : p \in Procs}) \ {NoChan}

\* make(chan struct{}): a channel distinct from every live one.
MakeChan == CHOOSE c \in Chans :
                /\ c \notin LiveChans(waiters, ch)
                /\ \A d \in Chans : d < c => d \in LiveChans(waiters, ch)

\* The observer log.  Contract-abiding callers make at most MaxTickets
\* entries and each misuse at most one more, so no entry is ever dropped.
Log(s, x) == IF Len(s) <= MaxTickets + MaxMisuse THEN Append(s, x) ELSE s

\* The ids GetTicket has returned.
Issued == Range(issued)

\* Goroutines that are not inside an operation are interchangeable: the one
\* that makes the next call is the lowest-numbered of them.
Caller(p) ==
    /\ pc[p] = "idle"
    /\ \A q \in Procs : q < p => pc[q] # "idle"

----------------------------------------------------------------------------
\* GetTicket: one atomic add on next, no use of mu.

\* Bug: the value of the counter after the add is the ticket.
TicketIdAfterAdd(n) == n + 1

\* id := m.next.Add(1) - 1
TicketId(n) == (n + 1) - 1

GetTicket(p) ==
    /\ Caller(p)
    /\ next < MaxTickets
    /\ next' = next + 1
    /\ issued' = Append(issued, TicketId(next))
    /\ phase' = [phase EXCEPT ![TicketId(next)] = "issued"]
    /\ UNCHANGED <<mu, cur, waiters, burned, closed, goroutines, admitted,
                   unlocked, cancelled, revoked, misuses>>

----------------------------------------------------------------------------
\* Calls.  A goroutine that is not inside an operation starts one on a
\* ticket GetTicket has handed out.

\* The usage contract (comment of ReturnTicket, lines 83-87): ReturnTicket
\* before Lock, or Lock, then Unlock once Lock has returned, then any
\* number of ReturnTicket calls; one call per ticket at a time.
ContractAllows(op, t) ==
    CASE op = "Lock" -> phase[t] = "issued"
      [] op = "Unlock" -> phase[t] = "held"
      [] op = "ReturnTicket" -> phase[t] \in {"issued", "released", "returned"}

PhaseAtCall(op, t) ==
    CASE ~ContractAllows(op, t) -> "misused"
      [] op = "Lock" -> "locking"
      [] op = "Unlock" -> "unlocking"
      [] op = "ReturnTicket" ->
            CASE phase[t] = "issued" -> "cancelling"
              [] phase[t] = "released" -> "returning"
              [] phase[t] = "returned" -> "returning again"

\* id := t.ID(); m.mu.Lock(): the operation starts when the goroutine gets
\* mu (lines 46-49, 69-70, 89-91); what precedes is local to the caller.
Enter(p, op, t) ==
    /\ Caller(p)
    /\ t \in Issued
    /\ mu = NoProc
    /\ mu' = p
    /\ pc' = [pc EXCEPT ![p] = op \o ":check"]
    /\ arg' = [arg EXCEPT ![p] = t]
    /\ phase' = [phase EXCEPT ![t] = PhaseAtCall(op, t)]
    /\ misuses' = IF ContractAllows(op, t) THEN misuses ELSE misuses + 1
    /\ UNCHANGED <<next, cur, waiters, burned, closed, ch, panicking, issued,
                   admitted, unlocked, cancelled, revoked>>

LockEnter(p, t) == ContractAllows("Lock", t) /\ Enter(p, "Lock", t)
UnlockEnter(p, t) == ContractAllows("Unlock", t) /\ Enter(p, "Unlock", t)
ReturnTicketEnter(p, t) ==
    ContractAllows("ReturnTicket", t) /\ Enter(p, "ReturnTicket", t)

\* A call that breaks the contract.
MisuseEnter(p, op, t) ==
    /\ ~ContractAllows(op, t)
    /\ misuses < MaxMisuse
    /\ Enter(p, op, t)

----------------------------------------------------------------------------
\* Lock

\* What the observers record when Lock(id) returns.
LockReturns(id) ==
    /\ admitted' = Log(admitted, id)
    /\ phase' = [phase EXCEPT ![id] = IF @ = "locking" THEN "held" ELSE @]
    /\ UNCHANGED <<issued, unlocked, cancelled, revoked, misuses>>

\* Bug: the fast path compares with < and the ticket at cur parks.
OurTurnBefore(id, c) == id < c

\* Bug: the fast path is missing, every Lock parks.
OurTurnNever(id, c) == FALSE

\* Bug: the fast path lets every ticket at or after cur in.
OurTurnOrLater(id, c) == id >= c

\* Line 50: if id == m.cur
OurTurn(id, c) == id = c

\* Lines 50-53: it is our turn, release mu and return.
LockFast(p) ==
    /\ pc[p] = "Lock:check"
    /\ OurTurn(arg[p], cur)
    /\ mu' = NoProc
    /\ pc' = [pc EXCEPT ![p] = "idle"]
    /\ arg' = [arg EXCEPT ![p] = 0]
    /\ LockReturns(arg[p])
    /\ UNCHANGED <<next, cur, waiters, burned, closed, ch, panicking>>

\* Bug: mu is not released before the receive on the channel.
LockParkHoldingMu(p) ==
    /\ pc[p] = "Lock:check"
    /\ ~OurTurn(arg[p], cur)
    /\ IF arg[p] \in DOMAIN waiters
          THEN /\ ch' = [ch EXCEPT ![p] = waiters[arg[p]]]
               /\ UNCHANGED waiters
          ELSE /\ ch' = [ch EXCEPT ![p] = MakeChan]
               /\ waiters' = MapPut(waiters, arg[p], MakeChan)
    /\ pc' = [pc EXCEPT ![p] = "Lock:wait"]
    /\ UNCHANGED <<next, mu, cur, burned, closed, arg, panicking, obs>>

\* Lines 56-61: park on (or create) this ticket's waiter, release mu.
LockPark(p) ==
    /\ pc[p] = "Lock:check"
    /\ ~OurTurn(arg[p], cur)
    /\ IF arg[p] \in DOMAIN waiters
          THEN /\ ch' = [ch EXCEPT ![p] = waiters[arg[p]]]
               /\ UNCHANGED waiters
          ELSE /\ ch' = [ch EXCEPT ![p] = MakeChan]
               /\ waiters' = MapPut(waiters, arg[p], MakeChan)
    /\ mu' = NoProc
    /\ pc' = [pc EXCEPT ![p] = "Lock:wait"]
    /\ UNCHANGED <<next, cur, burned, closed, arg, panicking, obs>>

\* Line 64: <-ch returns once ch is closed; Lock returns.
LockWake(p) ==
    /\ pc[p] = "Lock:wait"
    /\ ch[p] \in closed
    /\ pc' = [pc EXCEPT ![p] = "idle"]
    /\ ch' = [ch EXCEPT ![p] = NoChan]
    /\ closed' = closed \cap LiveChans(waiters, ch')
    /\ arg' = [arg EXCEPT ![p] = 0]
    /\ LockReturns(arg[p])
    /\ UNCHANGED <<next, mu, cur, waiters, burned, panicking>>

----------------------------------------------------------------------------
\* advanceAndWakeNext, called with mu held by Unlock and ReturnTicket.

\* Bug: the loop increments cur before it tests it.
RECURSIVE SkipBurnedIncrFirst(_, _)
SkipBurnedIncrFirst(c, b) ==
    IF c + 1 \in b THEN SkipBurnedIncrFirst(c + 1, b \ {c + 1}) ELSE c + 1

\* Bug: the loop asks whether anything is burned, not whether cur is.
SkipBurnedAny(c, b) == IF b # {} THEN c + 1 ELSE c

\* Bug: an if where the loop should be, one burned position is skipped.
SkipBurnedOnce(c, b) == IF c \in b THEN c + 1 ELSE c

\* Lines 121-127: the first position at or after c that is not burned.
RECURSIVE SkipBurned(_, _)
SkipBurned(c, b) == IF c \in b THEN SkipBurned(c + 1, b \ {c}) ELSE c

\* Bug: the loop deletes the first position it skips and no later one.
BurnedAfterSkipFirst(c, b) == b \ {c}

\* Bug: the loop moves cur and deletes nothing from burned.
BurnedAfterSkipKept(c, b) == b

\* Lines 121-127: what is left of burned after the loop.
BurnedAfterSkip(c, b) == b \ (c..(SkipBurned(c, b) - 1))

\* Bug: the entry stays in the map.
WaitersAfterWakeKept(w, c) == w

\* Lines 130-133: the waiter of position c is taken out of the map.
WaitersAfterWake(w, c) == IF c \in DOMAIN w THEN MapDelete(w, c) ELSE w

\* Bug: the wake-up takes the waiter out of the map and closes nothing.
ClosedByWakeNone(w, c) == {}

\* Bug: the wake-up closes the channel of every waiter.
ClosedByWakeAll(w, c) == IF c \in DOMAIN w THEN Range(w) ELSE {}

\* Bug: the wake-up closes the channel of the waiter after position c.
ClosedByWakeNext(w, c) == IF c + 1 \in DOMAIN w THEN {w[c + 1]} ELSE {}

\* Lines 130-133: the channels closed by the wake-up at position c.
ClosedByWake(w, c) == IF c \in DOMAIN w THEN {w[c]} ELSE {}

AfterAdvance(l) ==
    CASE l = "Unlock:advance" -> "Unlock:defer"
      [] l = "ReturnTicket:advance" -> "ReturnTicket:defer"

advanceAndWakeNext(p) ==
    /\ pc[p] \in {"Unlock:advance", "ReturnTicket:advance"}
    /\ cur' = SkipBurned(cur, burned)
    /\ burned' = BurnedAfterSkip(cur, burned)
    /\ waiters' = WaitersAfterWake(waiters, cur')
    /\ closed' = closed \cup ClosedByWake(waiters, cur')
       \* close of a closed channel panics in the Go runtime
    /\ panicking' = IF ClosedByWake(waiters, cur') \subseteq closed
                       /\ ClosedByWake(waiters, cur') # {}
                    THEN panicking \cup {p} ELSE panicking
    /\ pc' = [pc EXCEPT ![p] = AfterAdvance(pc[p])]
    /\ UNCHANGED <<next, mu, arg, ch, obs>>

----------------------------------------------------------------------------
\* Unlock

\* Bug: only a ticket after cur is refused.
NotHolderAfter(id, c) == id > c

\* Line 74: if id != m.cur
NotHolder(id, c) == id # c

\* Lines 74-79: panic unless id is cur, else cur++.
UnlockCheck(p) ==
    /\ pc[p] = "Unlock:check"
    /\ IF NotHolder(arg[p], cur)
          THEN /\ panicking' = panicking \cup {p}
               /\ pc' = [pc EXCEPT ![p] = "Unlock:defer"]
               /\ UNCHANGED <<cur, unlocked>>
          ELSE /\ cur' = cur + 1
               /\ unlocked' = unlocked \cup {arg[p]}
               /\ pc' = [pc EXCEPT ![p] = "Unlock:advance"]
               /\ UNCHANGED panicking
    /\ UNCHANGED <<next, mu, waiters, burned, closed, arg, ch, issued, phase,
                   admitted, cancelled, revoked, misuses>>

----------------------------------------------------------------------------
\* ReturnTicket

\* Bug: the early return is taken for the ticket at cur too.
AlreadyPassedOrFront(id, c) == id <= c

\* Bug: the early return is missing.
AlreadyPassedNever(id, c) == FALSE

\* Line 95: if id < m.cur
AlreadyPassed(id, c) == id < c

\* Bug: the dropped waiter's channel is closed.
ClosedByReturnWaiter(w, id) == IF id \in DOMAIN w THEN {w[id]} ELSE {}

\* Lines 104-111: the channels closed when the waiter of id is dropped:
\* none ("intentionally not closed").
ClosedByReturn(w, id) == {}

\* No Lock(id) has returned, and none has been woken and is about to.
NeverAdmitted(id) ==
    /\ id \notin Range(admitted)
    /\ \A q \in Procs :
          ~(pc[q] = "Lock:wait" /\ arg[q] = id /\ ch[q] \in closed)

\* Lines 95-111: nothing to do below cur; else burn id and drop its waiter
\* without closing the channel.
ReturnTicketCheck(p) ==
    /\ pc[p] = "ReturnTicket:check"
    /\ IF AlreadyPassed(arg[p], cur)
          THEN /\ pc' = [pc EXCEPT ![p] = "ReturnTicket:passed"]
               /\ UNCHANGED <<burned, waiters, closed, cancelled, revoked>>
          ELSE /\ burned' = burned \cup {arg[p]}
               /\ waiters' = WaitersAfterWake(waiters, arg[p])
               /\ closed' = closed \cup ClosedByReturn(waiters, arg[p])
               /\ cancelled' = cancelled \cup {arg[p]}
               /\ revoked' = IF NeverAdmitted(arg[p])
                                THEN revoked \cup {arg[p]} ELSE revoked
               /\ pc' = [pc EXCEPT ![p] = "ReturnTicket:advance"]
    /\ UNCHANGED <<next, mu, cur, arg, ch, panicking, issued, phase, admitted,
                   unlocked, misuses>>

----------------------------------------------------------------------------
\* defer m.mu.Unlock() of Unlock (line 71) and ReturnTicket (line 92); it
\* runs on return and while a panic unwinds.  A goroutine that panicked
\* does not run again.

PhaseAtReturn(ph) ==
    CASE ph = "unlocking" -> "released"
      [] ph = "cancelling" -> "cancelled"
      [] ph = "returning" -> "returned"
      [] ph = "returning again" -> "returned"
      [] OTHER -> ph

deferredMuUnlock(p) ==
    /\ pc[p] \in {"Unlock:defer", "ReturnTicket:passed", "ReturnTicket:defer"}
    /\ mu' = NoProc
    /\ IF p \in panicking
          THEN /\ pc' = [pc EXCEPT ![p] = "panicked"]
               /\ UNCHANGED phase
          ELSE /\ pc' = [pc EXCEPT ![p] = "idle"]
               /\ phase' = [phase EXCEPT ![arg[p]] = PhaseAtReturn(@)]
    /\ arg' = [arg EXCEPT ![p] = 0]
    /\ UNCHANGED <<next, cur, waiters, burned, closed, ch, panicking,
                   issued, admitted, unlocked, cancelled, revoked, misuses>>

----------------------------------------------------------------------------
\* Specifications

Step(p) ==
    \/ LockFast(p)
    \/ LockPark(p)
    \/ LockWake(p)
    \/ UnlockCheck(p)
    \/ ReturnTicketCheck(p)
    \/ advanceAndWakeNext(p)
    \/ deferredMuUnlock(p)

Next ==
    \E p \in Procs :
        \/ GetTicket(p)
        \/ \E t \in Tickets : LockEnter(p, t)
        \/ \E t \in Tickets : UnlockEnter(p, t)
        \/ \E t \in Tickets : ReturnTicketEnter(p, t)
        \/ Step(p)

Spec == Init /\ [][Next]_vars

Ops == {"Lock", "Unlock", "ReturnTicket"}

NextAny ==
    \/ Next
    \/ \E p \in Procs, t \in Tickets, op \in Ops : MisuseEnter(p, op, t)

SpecAny == Init /\ [][NextAny]_vars

\* The owner of ticket t performs the next action the contract asks of it:
\* Lock or ReturnTicket for an issued ticket, Unlock for a held one.
OwnerActs(t) ==
    \E p \in Procs :
        \/ LockEnter(p, t)
        \/ UnlockEnter(p, t)
        \/ phase[t] = "issued" /\ ReturnTicketEnter(p, t)

\* Fair scheduling: a goroutine that can run does run (weak fairness of
\* every goroutine's steps, none of which waits for anything once enabled),
\* and a goroutine calling m.mu.Lock() gets mu if mu is free again and
\* again (sync.Mutex hands mu to a waiter that has been starving).
Fairness ==
    /\ \A p \in Procs : WF_vars(Step(p))
    /\ \A t \in Tickets : SF_vars(OwnerActs(t))

FairSpec == Spec /\ Fairness

----------------------------------------------------------------------------
\* Properties

TypeOK ==
    /\ next \in 0..MaxTickets
    /\ mu \in Procs \cup {NoProc}
    /\ cur \in 0..(MaxTickets + 1)
    /\ DOMAIN waiters \subseteq Tickets
    /\ Range(waiters) \subseteq Chans
    /\ burned \subseteq Tickets
    /\ closed \subseteq Chans

\* Tickets inside the critical section: Lock has returned, Unlock has not
\* been called.
InCriticalSection == {t \in Tickets : phase[t] = "held"}

\* Goroutines suspended in Lock on a channel that is not closed.
Suspended == {p \in Procs : pc[p] = "Lock:wait" /\ ch[p] \notin closed}

\* Goroutines in Lock whose channel has been closed and that have not
\* returned yet.
Woken == {p \in Procs : pc[p] = "Lock:wait" /\ ch[p] \in closed}

\* C1: under the usage contract at most one ticket is inside the critical
\* section (Lock returned, Unlock not yet called) in every reachable state.
MutualExclusion == Cardinality(InCriticalSection) <= 1

\* One ticket holds the lock while the callers of two others are suspended.
MutualExclusionWitness ==
    /\ Cardinality(InCriticalSection) = 1
    /\ Cardinality(Suspended) >= 2

\* Every issued ticket has completed its terminal action.
Quiescent ==
    \A t \in Issued : phase[t] \in {"cancelled", "released", "returned"}

\* C2: the sequence in which Lock calls return is the non-cancelled ticket
\* ids in strictly increasing order: no id twice, no cancelled id, no
\* non-cancelled id skipped, and once all N issued tickets are done there
\* have been N minus the number of cancelled tickets admissions.
AdmissionOrder ==
    /\ \A i, j \in 1..Len(admitted) : i < j => admitted[i] < admitted[j]
    /\ \A i \in 1..Len(admitted) :
          /\ admitted[i] \in Issued \ cancelled
          /\ \A q \in 0..(admitted[i] - 1) :
                q \in cancelled \/ \E j \in 1..(i - 1) : admitted[j] = q
    /\ Quiescent =>
          /\ Range(admitted) = Issued \ cancelled
          /\ Len(admitted) = next - Cardinality(cancelled)

\* All tickets are done, one was cancelled and the two others were admitted.
AdmissionOrderWitness ==
    /\ next = MaxTickets
    /\ Quiescent
    /\ cancelled # {}
    /\ Len(admitted) >= 2

\* C3: when Lock(P) has returned, every ticket Q < P is resolved: Unlock(Q)
\* has been executed or ReturnTicket(Q) has cancelled it; a Lock that was
\* started before the Locks of its predecessors waits for them.
PredecessorPrecedence ==
    \A i \in 1..Len(admitted) :
        \A q \in 0..(admitted[i] - 1) : q \in unlocked \/ q \in cancelled

\* Lock(2) parked first (it made the first channel), then Lock(1), then
\* Lock(0) was called and has returned; 1 and 2 are still suspended.
PredecessorPrecedenceWitness ==
    /\ phase[0] = "held"
    /\ \E p, q \in Suspended :
          /\ arg[p] = 2 /\ ch[p] = 1
          /\ arg[q] = 1 /\ ch[q] = 2

\* C4: under the contract and fair scheduling, with every owner performing
\* its terminal action, a Lock that has been called returns, however its
\* registration interleaves with the Unlock or ReturnTicket that makes it
\* eligible; and while a caller is suspended some goroutine can take a step.
NoLostWakeup ==
    /\ \A t \in Tickets : (phase[t] = "locking") ~> (phase[t] = "held")
    /\ [](Suspended # {} => ENABLED Next)

\* A caller that registered and parked has been woken by a ReturnTicket
\* that cancelled the ticket at the front.
NoLostWakeupWitness ==
    /\ Woken # {}
    /\ \E q \in Procs : pc[q] = "ReturnTicket:defer"

\* Goroutine p took a step of its own.
Moved(p) == pc'[p] # pc[p]

\* Nothing of the lock's bookkeeping changes and no channel is closed.
NoEffect ==
    /\ cur' = cur
    /\ waiters' = waiters
    /\ burned' = burned
    /\ closed' \subseteq closed

\* Unlock(P) is at its check with P # cur, or unwinds the panic of it.
UnlockMisuse(p) ==
    \/ pc[p] = "Unlock:check" /\ arg[p] # cur
    \/ pc[p] = "Unlock:defer" /\ p \in panicking

\* C5: every Unlock(P) with P # cur panics; from its check to the end of
\* the unwinding cur, waiters and burned do not change, no channel is
\* closed, and the goroutine ends without holding the internal mutex.
MisuseDetection ==
    /\ [][\A p \in Procs : UnlockMisuse(p) =>
            /\ NoEffect
            /\ (pc[p] = "Unlock:check" /\ Moved(p)) =>
                  pc'[p] = "Unlock:defer" /\ p \in panicking'
            /\ (pc[p] = "Unlock:defer" /\ Moved(p)) =>
                  pc'[p] = "panicked" /\ mu' = NoProc]_vars
    /\ [](\A p \in Procs : pc[p] = "panicked" => mu # p)

\* An Unlock has panicked and the mutex is free, while another Lock caller
\* is still suspended and one ticket is in the critical section.
MisuseDetectionWitness ==
    /\ \E p \in Procs : pc[p] = "panicked"
    /\ mu = NoProc
    /\ Suspended # {}
    /\ InCriticalSection # {}

\* ReturnTicket(P) is at its check with P < cur, or on its early return.
ReturnPassed(p) ==
    \/ pc[p] = "ReturnTicket:check" /\ arg[p] < cur
    \/ pc[p] = "ReturnTicket:passed"

\* C6: ReturnTicket(P) with P < cur changes neither cur, waiters nor
\* burned, closes no channel and does not panic, on every call; and a
\* ReturnTicket(P) that follows Lock(P) and Unlock(P) finds P < cur.
ReturnResolvedNoOp ==
    /\ [][\A p \in Procs : ReturnPassed(p) =>
            /\ NoEffect
            /\ p \notin panicking'
            /\ (pc[p] = "ReturnTicket:check" /\ Moved(p)) =>
                  pc'[p] = "ReturnTicket:passed"
            /\ (pc[p] = "ReturnTicket:passed" /\ Moved(p)) =>
                  pc'[p] = "idle" /\ mu' = NoProc]_vars
    /\ [](\A p \in Procs :
            (pc[p] = "ReturnTicket:check"
               /\ phase[arg[p]] \in {"returning", "returning again"})
            => arg[p] < cur)

\* A second ReturnTicket on a released ticket is on its early return while
\* another caller is suspended in Lock.
ReturnResolvedNoOpWitness ==
    /\ \E p \in Procs :
          pc[p] = "ReturnTicket:passed" /\ phase[arg[p]] = "returning again"
    /\ Suspended # {}

\* Goroutine p is inside Lock.
InLock(p) == pc[p] \in {"Lock:check", "Lock:wait"}

CancelFrontHandsOn ==
    [][\A p \in Procs :
        /\ (pc[p] = "ReturnTicket:check" /\ arg[p] = cur /\ Moved(p)) =>
              /\ pc'[p] = "ReturnTicket:advance"
              /\ cur' = cur /\ arg'[p] = arg[p]
        /\ (pc[p] = "ReturnTicket:advance" /\ arg[p] = cur /\ Moved(p)) =>
              /\ cur' > arg[p]
              /\ cur' \notin cancelled
              /\ \A q \in (arg[p] + 1)..(cur' - 1) : q \in cancelled
              /\ unlocked' = unlocked
              /\ \A q \in Procs :
                    (pc[q] = "Lock:wait" /\ arg[q] = cur') => ch[q] \in closed'
       ]_vars

\* A ReturnTicket of the front ticket has moved cur over a further
\* cancelled position and woken the caller suspended for the new cur.
CancelFrontHandsOnWitness ==
    \E p \in Procs :
        /\ pc[p] = "ReturnTicket:defer"
        /\ phase[arg[p]] = "cancelling"
        /\ cur >= arg[p] + 2
        /\ \E q \in Woken : arg[q] = cur

\* C9: under the contract one step, hence one call of Unlock or
\* ReturnTicket, makes at most one suspended caller runnable and closes at
\* most one channel, and never closes a channel that is already closed.
AtMostOneWakeup ==
    [][/\ Cardinality({q \in Suspended : ch[q] \in closed'}) <= 1
       /\ Cardinality(closed' \ closed) <= 1
       /\ \A p \in Procs :
             (pc[p] \in {"Unlock:advance", "ReturnTicket:advance"} /\ Moved(p)
                /\ cur' \in DOMAIN waiters) => waiters[cur'] \notin closed
       /\ panicking' = {}]_vars

\* An Unlock has skipped a cancelled position and woken the caller
\* suspended for the position after it.
AtMostOneWakeupWitness ==
    \E p \in Procs :
        /\ pc[p] = "Unlock:defer"
        /\ cur >= arg[p] + 2
        /\ \E q \in Woken : arg[q] = cur

\* C10: the k-th GetTicket returns k-1, no id is returned twice, the issued
\* ids are 0..next-1, and GetTicket can be taken whoever holds the
\* internal mutex.
TicketIssuance ==
    /\ \A k \in 1..Len(issued) : issued[k] = k - 1
    /\ Len(issued) = next
    /\ Issued = 0..(next - 1)
    /\ (next < MaxTickets /\ \E p \in Procs : pc[p] = "idle") =>
          ENABLED (\E p \in Procs : GetTicket(p))

\* Two tickets are out and a third can be issued while a goroutine holds
\* the internal mutex.
TicketIssuanceWitness ==
    /\ Len(issued) = 2
    /\ next < MaxTickets
    /\ mu # NoProc
    /\ \E p \in Procs : pc[p] = "idle"

\* C11: Lock(P) called while cur = P returns without suspending and leaves
\* cur, waiters and burned as they are, creating no waiter entry; so a
\* Lock whose predecessors have all been unlocked, as in a single caller
\* going through its tickets in issuance order, finds cur = P.
FastPath ==
    /\ [][\A p \in Procs :
            (pc[p] = "Lock:check" /\ arg[p] = cur /\ Moved(p)) =>
                /\ pc'[p] = "idle"
                /\ mu' = NoProc
                /\ NoEffect
                /\ closed' = closed]_vars
    /\ [](\A p \in Procs :
            (pc[p] = "Lock:check" /\ (0..(arg[p] - 1)) \subseteq unlocked)
            => arg[p] = cur)

\* Tickets 0 and 1 have been locked and unlocked, nobody ever waits, and
\* Lock(2) is at its check with cur = 2.
FastPathWitness ==
    \E p \in Procs :
        /\ pc[p] = "Lock:check"
        /\ arg[p] = 2 /\ cur = 2
        /\ unlocked = {0, 1}
        /\ admitted = <<0, 1>>
        /\ waiters = << >>

\* C12: under the contract cur = P when Lock(P) returns, by the fast path
\* or after its channel was closed, and cur stays P in every state until
\* Unlock(P) passes its check, whatever other tickets' calls do.
EligibleAtReturn ==
    /\ \A t \in Tickets : phase[t] = "held" => cur = t
    /\ \A p \in Woken : cur = arg[p]
    /\ \A p \in Procs : pc[p] = "Unlock:check" => cur = arg[p]

\* Ticket 0 holds the lock, woken or not; meanwhile ticket 2 was cancelled
\* and the caller of Lock(1) is suspended.
EligibleAtReturnWitness ==
    /\ phase[0] = "held"
    /\ 2 \in burned
    /\ \E p \in Suspended : arg[p] = 1
    /\ mu = NoProc

\* C13: next >= cur in every reachable state, states in the middle of an
\* operation and states where every issued ticket was cancelled included.
NextAtLeastCur == next >= cur

\* Every issued ticket has been cancelled and cur has caught up with next.
NextAtLeastCurWitness ==
    /\ next >= 2
    /\ cancelled = Issued
    /\ cur = next

\* C14: under the contract, whenever mu is free every position with a
\* waiter entry is at or after cur and below next, and a position has one
\* entry at most: no two parked goroutines share a position or a channel.
\* No position cur has passed gets an entry again.
WaitersAhead ==
    /\ [](mu = NoProc =>
            /\ \A k \in DOMAIN waiters : cur <= k /\ k < next
            /\ \A k, l \in DOMAIN waiters : waiters[k] = waiters[l] => k = l
            /\ \A p, q \in Suspended : arg[p] = arg[q] => p = q)
    /\ [][\A k \in (DOMAIN waiters') \ (DOMAIN waiters) : k >= cur]_vars

\* cur has moved on from position 0 by waking the waiter of position 1,
\* whose entry is gone, and position 2 after cur still has its entry.
WaitersAheadWitness ==
    /\ mu = NoProc
    /\ cur = 1
    /\ 0 \in unlocked
    /\ admitted = <<0, 1>>
    /\ DOMAIN waiters = {2}

\* C15: under the contract, whenever mu is free, waiters has an entry for
\* position P exactly when some goroutine has parked in Lock(P) on a
\* channel that is not closed yet; the entry holds that channel and P is
\* still ahead of cur.
WaitersAreSuspended ==
    mu = NoProc =>
        /\ DOMAIN waiters = {arg[p] : p \in Suspended}
        /\ \A p \in Suspended : waiters[arg[p]] = ch[p] /\ arg[p] > cur
        /\ \A p \in Woken : arg[p] \notin DOMAIN waiters

\* One goroutine has been signalled and has not returned yet, another is
\* still suspended and has the only entry, and mu is free.
WaitersAreSuspendedWitness ==
    /\ mu = NoProc
    /\ Woken # {}
    /\ Cardinality(Suspended) = 1
    /\ Cardinality(DOMAIN waiters) = 1

\* C16: whenever mu is free every burned position is after cur and below
\* next; a position enters burned only if it is at or after cur, and an
\* operation that moves cur past a burned position deletes it before it
\* releases mu.
BurnedAhead ==
    /\ [](mu = NoProc => \A b \in burned : cur < b /\ b < next)
    /\ [][\A b \in burned' \ burned : b >= cur]_vars
    /\ [](cur \in burned => mu # NoProc)

\* cur has passed a cancelled position, which is no longer in burned,
\* while a cancelled position ahead of cur still is.
BurnedAheadWitness ==
    /\ mu = NoProc
    /\ \E t \in cancelled : t < cur /\ t \notin burned
    /\ \E t \in burned : t > cur

\* C17: Unlock(P) with P = cur steps cur to P + 1 and then to the smallest
\* position q > P not in burned; it removes from burned the positions
\* strictly between P and q and no other; if waiters has an entry for q it
\* deletes the entry and closes its channel, which was open, and it leaves
\* waiters and every channel as they are otherwise.
UnlockSkipAndWake ==
    /\ [][\A p \in Procs :
            (pc[p] = "Unlock:check" /\ arg[p] = cur /\ Moved(p)) =>
                /\ pc'[p] = "Unlock:advance"
                /\ cur' = arg[p] + 1
                /\ waiters' = waiters /\ burned' = burned
                /\ closed' = closed]_vars
    /\ [][\A p \in Procs :
            (pc[p] = "Unlock:advance" /\ Moved(p)) =>
                /\ cur' > arg[p]
                /\ cur' \notin burned
                /\ \A r \in (arg[p] + 1)..(cur' - 1) : r \in burned
                /\ burned' = burned \ ((arg[p] + 1)..(cur' - 1))
                /\ IF cur' \in DOMAIN waiters
                      THEN /\ DOMAIN waiters' = (DOMAIN waiters) \ {cur'}
                           /\ \A k \in DOMAIN waiters' :
                                  waiters'[k] = waiters[k]
                           /\ waiters[cur'] \notin closed
                           /\ closed' = closed \cup {waiters[cur']}
                           /\ p \notin panicking'
                      ELSE /\ waiters' = waiters
                           /\ closed' = closed]_vars

\* Unlock(0) has skipped the cancelled position 1 and closed the channel
\* of position 2's waiter; it has not released mu yet.
UnlockSkipAndWakeWitness ==
    \E p \in Procs :
        /\ pc[p] = "Unlock:defer"
        /\ arg[p] = 0
        /\ cur = 2
        /\ 1 \in cancelled
        /\ burned = {}
        /\ \E q \in Woken : arg[q] = 2

\* Goroutine p is inside an operation and none of its steps can be taken.
Blocked(p) == pc[p] \notin {"idle", "panicked"} /\ ~ENABLED Step(p)

\* C18: a goroutine waiting on its channel in Lock does not hold mu; the
\* only place where a goroutine inside an operation cannot take a step is
\* that receive, on a channel that is not closed; every other goroutine
\* inside an operation holds mu, and whoever holds mu releases it, however
\* many goroutines are suspended.
OnlyLockBlocks ==
    /\ [](\A p \in Procs : pc[p] = "Lock:wait" => mu # p)
    /\ [](\A p \in Procs : Blocked(p) => p \in Suspended)
    /\ [](\A p \in Procs :
            pc[p] \notin {"idle", "panicked", "Lock:wait"} => mu = p)
    /\ \A p \in Procs : (mu = p) ~> (mu # p)

\* Both other goroutines are suspended in Lock while a ReturnTicket is at
\* its check with mu held.
OnlyLockBlocksWitness ==
    /\ Cardinality(Suspended) = NProc - 1
    /\ \E p \in Procs : pc[p] = "ReturnTicket:check" /\ mu = p

\* Every issued ticket other than t has completed its terminal action.
OthersDone(t) ==
    \A u \in Issued \ {t} : phase[u] \in {"cancelled", "released", "returned"}

\* C19: under the contract, once every issued ticket has been cancelled
\* before Lock or locked and unlocked, cur = next, waiters and burned are
\* empty, nobody is suspended and mu is free, whichever tickets were
\* cancelled and in whatever order; a Lock on a ticket issued after that
\* finds cur equal to its ticket and returns by the fast path.
QuiescentNoLeak ==
    /\ [](Quiescent =>
            /\ cur = next
            /\ waiters = << >>
            /\ burned = {}
            /\ mu = NoProc
            /\ \A p \in Procs : pc[p] = "idle")
    /\ [](\A p \in Procs :
            (pc[p] = "Lock:check" /\ OthersDone(arg[p])) => arg[p] = cur)
    /\ [][\A p \in Procs :
            (pc[p] = "Lock:check" /\ OthersDone(arg[p]) /\ Moved(p)) =>
                pc'[p] = "idle" /\ phase'[arg[p]] = "held"]_vars

\* Ticket 0 was locked and unlocked and ticket 1 cancelled, both are
\* done, and the Lock of ticket 2 is at its check.
QuiescentNoLeakWitness ==
    \E p \in Procs :
        /\ pc[p] = "Lock:check"
        /\ arg[p] = 2
        /\ OthersDone(2)
        /\ unlocked = {0}
        /\ cancelled = {1}

\* C20: under the contract ReturnTicket(P) with P > cur adds P to burned
\* and changes nothing else: cur, waiters and the closed channels are the
\* same after each of its steps, no goroutine is woken, and the ticket in
\* the critical section stays there.  No waiter entry exists for cur when
\* mu is free or when advanceAndWakeNext runs for such a call.
CancelAheadFrame ==
    /\ [][\A p \in Procs :
            /\ (pc[p] = "ReturnTicket:check" /\ arg[p] > cur /\ Moved(p)) =>
                  /\ pc'[p] = "ReturnTicket:advance"
                  /\ burned' = burned \cup {arg[p]}
                  /\ cur' = cur /\ waiters' = waiters /\ closed' = closed
            /\ (pc[p] = "ReturnTicket:advance" /\ arg[p] > cur /\ Moved(p)) =>
                  /\ pc'[p] = "ReturnTicket:defer"
                  /\ cur \notin DOMAIN waiters
                  /\ cur' = cur /\ waiters' = waiters /\ closed' = closed
                  /\ burned' = burned
                  /\ p \notin panicking'
            /\ (pc[p] = "ReturnTicket:defer" /\ arg[p] > cur /\ Moved(p)) =>
                  /\ pc'[p] = "idle"
                  /\ NoEffect /\ closed' = closed
                  /\ arg[p] \in burned'
            /\ (pc[p] \in {"ReturnTicket:check", "ReturnTicket:advance",
                           "ReturnTicket:defer"} /\ arg[p] > cur) =>
                  /\ {q \in Procs : pc'[q] = "Lock:wait" /\ ch'[q] \in closed'}
                        \subseteq Woken
                  /\ \A t \in InCriticalSection : phase'[t] = "held"
       ]_vars
    /\ [](mu = NoProc => cur \notin DOMAIN waiters)

\* Ticket 2 has been burned by a ReturnTicket that is about to release mu,
\* while ticket 0 is in the critical section and the caller of Lock(1)
\* stays suspended.
CancelAheadFrameWitness ==
    \E p \in Procs :
        /\ pc[p] = "ReturnTicket:defer"
        /\ arg[p] = 2
        /\ cur = 0
        /\ burned = {2}
        /\ phase[0] = "held"
        /\ \E q \in Suspended : arg[q] = 1

====
